---- MODULE Spec2Model ----
(***************************************************************************)
(* rocket_i18n: the template formatter try_format (src/lib.rs) and the     *)
(* Accept-Language negotiation of the two request guards                   *)
(* (src/with_rocket.rs, src/with_actix.rs).                                *)
(*                                                                         *)
(* A Rust string is modelled as the sequence of its characters, each a     *)
(* one-character TLA+ string: "{0}" is << "{", "0", "}" >>.                *)
(***************************************************************************)
EXTENDS Integers, Sequences, FiniteSets

\* ------------------------------------------------------------------ bounds

\* Longest message pattern handed to try_format.
MaxLen == 5

\* Longest argument list handed to try_format.
MaxArgs == 2

\* Longest Accept-Language value of a request.
MaxHeader == 4

\* Longest Translations table.
MaxLangs == 2

\* Characters a pattern is drawn from: both braces, two digits, and "+",
\* which is literal text outside a placeholder and, inside one, the sign
\* that usize's FromStr accepts in front of the digits.
PatternChars == {"{", "}", "+", "0", "1"}

\* Characters an Accept-Language value is drawn from: the letters of "en"
\* and the three separators the guards split on.
HeaderChars == {"e", "n", ",", "-", ";"}

\* ----------------------------------------------------------- std helpers

\* All character sequences over chars, of length at most n.
StringsUpTo(chars, n) == UNION {[1..k -> chars] : k \in 0..n}

\* str::contains(char)
Contains(s, c) == \E p \in 1..Len(s) : s[p] = c

\* str::split(pattern): the pieces between the separators, empty pieces kept,
\* so a string with n separators yields n + 1 pieces and "" yields [""].
RECURSIVE Split(_, _)
Split(s, seps) ==
    IF \A p \in 1..Len(s) : s[p] \notin seps
    THEN << s >>
    ELSE LET p == CHOOSE q \in 1..Len(s) :
                      /\ s[q] \in seps
                      /\ \A r \in 1..(q - 1) : s[r] \notin seps
         IN  << SubSeq(s, 1, p - 1) >> \o Split(SubSeq(s, p + 1, Len(s)), seps)

Digits == {"0", "1", "2", "3", "4", "5", "6", "7", "8", "9"}

DigitVal(c) ==
    CASE c = "0" -> 0 [] c = "1" -> 1 [] c = "2" -> 2 [] c = "3" -> 3
      [] c = "4" -> 4 [] c = "5" -> 5 [] c = "6" -> 6 [] c = "7" -> 7
      [] c = "8" -> 8 [] c = "9" -> 9

DigitChar(d) == << "0", "1", "2", "3", "4", "5", "6", "7", "8", "9" >>[d + 1]

RECURSIVE DecimalValue(_)
DecimalValue(ds) ==
    IF ds = << >> THEN 0
    ELSE 10 * DecimalValue(SubSeq(ds, 1, Len(ds) - 1)) + DigitVal(ds[Len(ds)])

\* <usize as FromStr>::from_str: an optional "+" and then at least one decimal
\* digit.  ParseFails is the Err case, ParseValue the Ok value.  (A value
\* beyond usize::MAX is an Err as well; it takes 20 digits, and as an index
\* it would be out of range of any argument list all the same.)
ParseDigits(arg) == IF arg # << >> /\ arg[1] = "+" THEN Tail(arg) ELSE arg

ParseFails(arg) ==
    \/ ParseDigits(arg) = << >>
    \/ \E p \in 1..Len(ParseDigits(arg)) : ParseDigits(arg)[p] \notin Digits

ParseValue(arg) == DecimalValue(ParseDigits(arg))

\* Display of an argument, format!("{}", var): the arguments are unsigned
\* integers (the plural count of i18n!), rendered in decimal.
RECURSIVE Display(_)
Display(n) ==
    IF n < 10 THEN << DigitChar(n) >>
    ELSE Display(n \div 10) \o << DigitChar(n % 10) >>

\* ------------------------------------------------------------------ inputs

\* The k-th argument of the call (1-based); the arguments are pairwise
\* distinct, so that a rendered argument tells which index was resolved.
ArgValue(k) == 9 + k

Patterns == StringsUpTo(PatternChars, MaxLen)

ArgLists == {[k \in 1..n |-> ArgValue(k)] : n \in 0..MaxArgs}

\* ------------------------------------------------------------------- state

VARIABLES
    str_pattern,      \* try_format's pattern
    argv,             \* try_format's arguments
    pc,               \* "parse" | "generate" | "done"
    i,                \* enumerate() index of the next '}'-delimited part
    pattern,          \* the literal texts pushed so far
    vars,             \* the arguments pushed so far
    finish_or_fail,   \* a part without '{' has been seen
    res,              \* the output string under construction
    ret,              \* "None" | "Ok" | "UnmatchedCurlyBracket" | "InvalidPositionalArgument"
    managed,          \* the application manages a Translations value
    langs,            \* the Translations table: << tag, catalog >> entries
    header,           \* the request's Accept-Language header
    rocket,           \* outcome of the Rocket guard on the request
    actix             \* outcome of the Actix guard on the request

fvars == << str_pattern, argv, pc, i, pattern, vars, finish_or_fail, res, ret >>

nvars == << managed, langs, header, rocket, actix >>

allvars == << fvars, nvars >>

\* ------------------------------------------------------------- try_format

\* str_pattern.split('}')
Parts == Split(str_pattern, {"}"})

\* The part the for loop is at (i is zero-based).
Part == Parts[i + 1]

\* part.split('{'): text, arg and whatever follows.
Pieces == Split(Part, {"{"})

\* Variant: an empty specifier counts the empty specifiers before it.
ResolvedIndexCounter(arg, idx) ==
    IF Len(arg) > 0 THEN ParseValue(arg)
    ELSE Cardinality({k \in 1..idx : Split(Parts[k], {"{"})[2] = << >>})

\* The index handed to argv.get: the parsed specifier, or the enumerate()
\* index of the part when the specifier is empty.
ResolvedIndex(arg, idx) == IF Len(arg) > 0 THEN ParseValue(arg) ELSE idx

\* The specifier does not parse, or argv.get(index) is None.
IndexFails(arg, idx) ==
    IF Len(arg) > 0 /\ ParseFails(arg) THEN TRUE
    ELSE ResolvedIndex(arg, idx) >= Len(argv)

\* No request is being served while try_format runs.
NoRequest ==
    /\ managed = FALSE
    /\ langs = << >>
    /\ header = [present |-> FALSE, text |-> FALSE, value |-> << >>]
    /\ rocket = [status |-> "Idle", lang |-> << >>, catalog |-> 0]
    /\ actix = [status |-> "Idle", lang |-> << >>, catalog |-> 0]

Return(r) ==
    /\ pc' = "done"
    /\ ret' = r
    /\ UNCHANGED << str_pattern, argv, i, pattern, vars, finish_or_fail, res >>
    /\ UNCHANGED nvars

InitFormat ==
    /\ str_pattern \in Patterns
    /\ argv \in ArgLists
    /\ pc = "parse"
    /\ i = 0
    /\ pattern = << >>
    /\ vars = << >>
    /\ finish_or_fail = FALSE
    /\ res = << >>
    /\ ret = "None"
    /\ NoRequest

\* if finish_or_fail { return Err(UnmatchedCurlyBracket) }
ParseAfterFinal ==
    /\ pc = "parse"
    /\ i < Len(Parts)
    /\ finish_or_fail
    /\ Return("UnmatchedCurlyBracket")

\* The part holds more than one '{': part.next() != None.
\* (arg = part.next().ok_or(..)? cannot fail: a part that contains '{'
\* splits into at least two pieces.)
ParseTooManyOpen ==
    /\ pc = "parse"
    /\ i < Len(Parts)
    /\ ~finish_or_fail
    /\ Contains(Part, "{")
    /\ Len(Pieces) > 2
    /\ Return("UnmatchedCurlyBracket")

\* Variant: the failing parse or argv.get is reported as the other error.
ParseBadIndexAsUnmatched ==
    /\ pc = "parse"
    /\ i < Len(Parts)
    /\ ~finish_or_fail
    /\ Contains(Part, "{")
    /\ Len(Pieces) = 2
    /\ IndexFails(Pieces[2], i)
    /\ pc' = "done"
    /\ ret' = "UnmatchedCurlyBracket"
    /\ pattern' = Append(pattern, Pieces[1])
    /\ UNCHANGED << str_pattern, argv, i, vars, finish_or_fail, res >>
    /\ UNCHANGED nvars

\* pattern.push(text) is followed by the failing parse or argv.get.
ParseBadIndex ==
    /\ pc = "parse"
    /\ i < Len(Parts)
    /\ ~finish_or_fail
    /\ Contains(Part, "{")
    /\ Len(Pieces) = 2
    /\ IndexFails(Pieces[2], i)
    /\ pc' = "done"
    /\ ret' = "InvalidPositionalArgument"
    /\ pattern' = Append(pattern, Pieces[1])
    /\ UNCHANGED << str_pattern, argv, i, vars, finish_or_fail, res >>
    /\ UNCHANGED nvars

\* pattern.push(text); vars.push(argv[index])
ParsePlaceholder ==
    /\ pc = "parse"
    /\ i < Len(Parts)
    /\ ~finish_or_fail
    /\ Contains(Part, "{")
    /\ Len(Pieces) = 2
    /\ ~IndexFails(Pieces[2], i)
    /\ pattern' = Append(pattern, Pieces[1])
    /\ vars' = Append(vars, argv[ResolvedIndex(Pieces[2], i) + 1])
    /\ i' = i + 1
    /\ UNCHANGED << str_pattern, argv, pc, finish_or_fail, res, ret >>
    /\ UNCHANGED nvars

\* Variant: the part without '{' is pushed but not remembered.
ParseFinalNoFlag ==
    /\ pc = "parse"
    /\ i < Len(Parts)
    /\ ~Contains(Part, "{")
    /\ pattern' = Append(pattern, Part)
    /\ i' = i + 1
    /\ UNCHANGED << str_pattern, argv, pc, vars, finish_or_fail, res, ret >>
    /\ UNCHANGED nvars

\* else { finish_or_fail = true; pattern.push(part) }
ParseFinal ==
    /\ pc = "parse"
    /\ i < Len(Parts)
    /\ ~finish_or_fail
    /\ ~Contains(Part, "{")
    /\ finish_or_fail' = TRUE
    /\ pattern' = Append(pattern, Part)
    /\ i' = i + 1
    /\ UNCHANGED << str_pattern, argv, pc, vars, res, ret >>
    /\ UNCHANGED nvars

\* The for loop is exhausted.
ParseEnd ==
    /\ pc = "parse"
    /\ i = Len(Parts)
    /\ pc' = "generate"
    /\ UNCHANGED << str_pattern, argv, i, pattern, vars, finish_or_fail, res, ret >>
    /\ UNCHANGED nvars

\* Variant: each var is written before its text.
RECURSIVE InterleaveVarFirst(_, _)
InterleaveVarFirst(texts, args) ==
    IF texts = << >> THEN << >>
    ELSE (IF args = << >> THEN << >> ELSE Display(Head(args)))
         \o Head(texts)
         \o InterleaveVarFirst(Tail(texts), IF args = << >> THEN << >> ELSE Tail(args))

\* Variant: the text after the last var is not written.
RECURSIVE InterleaveNoTail(_, _)
InterleaveNoTail(texts, args) ==
    IF texts = << >> \/ args = << >> THEN << >>
    ELSE Head(texts) \o Display(Head(args)) \o InterleaveNoTail(Tail(texts), Tail(args))

\* while let Some(text) = pattern.next(): each text, followed by the next
\* var if one is left.
RECURSIVE Interleave(_, _)
Interleave(texts, args) ==
    IF texts = << >> THEN << >>
    ELSE Head(texts)
         \o (IF args = << >> THEN << >> ELSE Display(Head(args)))
         \o Interleave(Tail(texts), IF args = << >> THEN << >> ELSE Tail(args))

Generate ==
    /\ pc = "generate"
    /\ res' = Interleave(pattern, vars)
    /\ pc' = "done"
    /\ ret' = "Ok"
    /\ UNCHANGED << str_pattern, argv, i, pattern, vars, finish_or_fail >>
    /\ UNCHANGED nvars

NextFormat ==
    \/ ParseAfterFinal
    \/ ParseTooManyOpen
    \/ ParseBadIndex
    \/ ParsePlaceholder
    \/ ParseFinal
    \/ ParseEnd
    \/ Generate

Spec == InitFormat /\ [][NextFormat]_allvars

\* ------------------------------------------- properties of try_format

\* The pattern read character by character, without splitting it.

\* Number of '}' before position p.
ClosesBefore(s, p) == Cardinality({q \in 1..(p - 1) : s[q] = "}"})

\* Number of '}'-delimited segments; segments are numbered from 0.
NumSegments(s) == ClosesBefore(s, Len(s) + 1) + 1

\* Positions of the '{' of segment k.
SegOpens(s, k) == {p \in 1..Len(s) : s[p] = "{" /\ ClosesBefore(s, p) = k}

\* Position of the '}' that ends segment k; one past the end for the last.
SegEnd(s, k) ==
    IF k = NumSegments(s) - 1 THEN Len(s) + 1
    ELSE CHOOSE q \in 1..Len(s) : s[q] = "}" /\ ClosesBefore(s, q) = k

\* The specifier of a segment with a single '{': what follows the '{'.
SegSpecifier(s, k) ==
    LET p == CHOOSE q \in SegOpens(s, k) : TRUE
    IN  SubSeq(s, p + 1, SegEnd(s, k) - 1)

AllDigits(w) == \A p \in 1..Len(w) : w[p] \in Digits

\* Segment k is a placeholder {} or {digits}, closed by a '}'.
IsPlaceholder(s, k) ==
    /\ k < NumSegments(s) - 1
    /\ Cardinality(SegOpens(s, k)) = 1
    /\ AllDigits(SegSpecifier(s, k))

\* The index a placeholder segment resolves to.
SegIndex(s, k) ==
    IF SegSpecifier(s, k) = << >> THEN k ELSE DecimalValue(SegSpecifier(s, k))

\* Every '{' opens a placeholder {} or {digits} that is closed.
PlaceholdersWellFormed(s) ==
    \A p \in 1..Len(s) :
        s[p] = "{" =>
            \E q \in (p + 1)..Len(s) :
                /\ s[q] = "}"
                /\ \A r \in (p + 1)..(q - 1) : s[r] \in Digits

\* The index of the placeholder opened at p.
OpenIndex(s, p) ==
    LET q   == CHOOSE c \in (p + 1)..Len(s) :
                   s[c] = "}" /\ \A r \in (p + 1)..(c - 1) : s[r] # "}"
        spc == SubSeq(s, p + 1, q - 1)
    IN  IF spc = << >> THEN ClosesBefore(s, p) ELSE DecimalValue(spc)

IndicesInRange(s, args) ==
    \A p \in 1..Len(s) : s[p] = "{" => OpenIndex(s, p) < Len(args)

\* No '}' stands outside a placeholder: every segment but the last has a '{'.
NoStrayClose(s) == \A k \in 0..(NumSegments(s) - 2) : SegOpens(s, k) # {}

\* The expected output: the characters of the pattern from position p on,
\* each placeholder replaced by the rendering of its argument.
RECURSIVE Rendered(_, _, _)
Rendered(s, p, args) ==
    IF p > Len(s) THEN << >>
    ELSE IF s[p] = "{"
         THEN LET q == CHOOSE c \in (p + 1)..Len(s) :
                           s[c] = "}" /\ \A r \in (p + 1)..(c - 1) : s[r] # "}"
              IN  Display(args[OpenIndex(s, p) + 1]) \o Rendered(s, q + 1, args)
         ELSE << s[p] >> \o Rendered(s, p + 1, args)

\* C1 as stated: a pattern whose placeholders are all well-formed, with
\* every resolved index in range, formats to Ok with each placeholder
\* replaced by its argument and the literal text kept.
C1_AsStated ==
    (pc = "done" /\ PlaceholdersWellFormed(str_pattern)
                 /\ IndicesInRange(str_pattern, argv))
        => (ret = "Ok" /\ res = Rendered(str_pattern, 1, argv))

\* C1, amended: a pattern whose placeholders are all well-formed and that has
\* no '}' outside a placeholder, with every resolved index in range, formats
\* to Ok; the output is the literal pieces in order, each placeholder
\* replaced once by the rendering of the argument at its resolved index.
C1_ValidPatternFormats ==
    (pc = "done" /\ PlaceholdersWellFormed(str_pattern)
                 /\ NoStrayClose(str_pattern)
                 /\ IndicesInRange(str_pattern, argv))
        => (ret = "Ok" /\ res = Rendered(str_pattern, 1, argv))

\* A valid pattern with literal text in front of two placeholders has been
\* formatted.
C1_Witness ==
    /\ pc = "done"
    /\ PlaceholdersWellFormed(str_pattern)
    /\ NoStrayClose(str_pattern)
    /\ IndicesInRange(str_pattern, argv)
    /\ str_pattern # << >> /\ str_pattern[1] \notin {"{", "}"}
    /\ Len(vars) = 2
    /\ ret = "Ok"

\* Some '{' of the pattern is followed by no '}'.
UnclosedOpen(s) ==
    \E p \in 1..Len(s) : s[p] = "{" /\ \A q \in (p + 1)..Len(s) : s[q] # "}"

\* C2: a pattern with an open brace that is never closed fails with
\* UnmatchedCurlyBracket.
C2_UnclosedOpenFails ==
    (pc = "done" /\ UnclosedOpen(str_pattern)) => ret = "UnmatchedCurlyBracket"

\* C3: a placeholder whose resolved index is not below the length of the
\* argument list, with exactly one '{' in every segment before it, makes
\* try_format return InvalidPositionalArgument and no string.
C3_OutOfRangeFails ==
    (/\ pc = "done"
     /\ \E k \in 0..(NumSegments(str_pattern) - 1) :
            /\ \A j \in 0..(k - 1) : Cardinality(SegOpens(str_pattern, j)) = 1
            /\ IsPlaceholder(str_pattern, k)
            /\ SegIndex(str_pattern, k) >= Len(argv))
        => (ret = "InvalidPositionalArgument" /\ res = << >>)

\* The second placeholder, an explicit {1}, is the one out of range.
C3_Witness ==
    /\ pc = "done"
    /\ Len(argv) = 1
    /\ NumSegments(str_pattern) >= 3
    /\ IsPlaceholder(str_pattern, 0)
    /\ SegIndex(str_pattern, 0) = 0
    /\ IsPlaceholder(str_pattern, 1)
    /\ SegSpecifier(str_pattern, 1) = << "1" >>
    /\ ret = "InvalidPositionalArgument"

\* No '{' of the pattern opens a closed {} or {digits}.
NoPlaceholder(s) ==
    \A p \in 1..Len(s) :
        s[p] = "{" =>
            ~\E q \in (p + 1)..Len(s) :
                /\ s[q] = "}"
                /\ \A r \in (p + 1)..(q - 1) : s[r] \in Digits

\* C4 as stated: a pattern without a placeholder formats to itself.
C4_AsStated ==
    (pc = "done" /\ NoPlaceholder(str_pattern))
        => (ret = "Ok" /\ res = str_pattern)

\* C4, amended: a pattern with neither '{' nor '}' formats to itself, Ok,
\* whatever the argument list.
C4_BraceFreeUnchanged ==
    (pc = "done" /\ ~Contains(str_pattern, "{") /\ ~Contains(str_pattern, "}"))
        => (ret = "Ok" /\ res = str_pattern)

\* A brace-free pattern of several characters has been formatted with
\* arguments at hand.
C4_Witness ==
    /\ pc = "done"
    /\ ~Contains(str_pattern, "{") /\ ~Contains(str_pattern, "}")
    /\ Len(str_pattern) >= 2
    /\ Len(argv) >= 1
    /\ res = str_pattern

\* Segment k is an empty placeholder {} that follows a '}' without '{':
\* some earlier segment has no '{'.
EmptyAfterStrayClose(s, k) ==
    /\ IsPlaceholder(s, k)
    /\ SegSpecifier(s, k) = << >>
    /\ \E j \in 0..(k - 1) : SegOpens(s, j) = {}

\* C8 as stated: an empty placeholder after a stray '}' is formatted with the
\* argument at its shifted index, the position of its segment.
C8_AsStated ==
    (pc = "done")
        => \A k \in 0..(NumSegments(str_pattern) - 1) :
               (EmptyAfterStrayClose(str_pattern, k) /\ k < Len(argv))
                   => (/\ ret = "Ok"
                       /\ \E n \in 1..Len(vars) : vars[n] = argv[k + 1])

\* C8, amended: the implicit index of {} is the zero-based position of its
\* segment, which is the number of placeholders, explicit or empty, before
\* it; a stray '}' before a placeholder never shifts an index: no argument
\* is resolved after it and try_format returns an error.
C8_ImplicitIndexIsSegment ==
    /\ \A n \in 1..Len(vars) :
           /\ \A j \in 0..(n - 1) : Cardinality(SegOpens(str_pattern, j)) = 1
           /\ SegSpecifier(str_pattern, n - 1) = << >>
                  => (n <= Len(argv) /\ vars[n] = argv[n])
    /\ pc = "done" =>
           \A k \in 0..(NumSegments(str_pattern) - 1) :
               EmptyAfterStrayClose(str_pattern, k)
                   => /\ ret \in {"UnmatchedCurlyBracket", "InvalidPositionalArgument"}
                      /\ Len(vars) < k

\* An empty placeholder after a stray '}', with an argument at the shifted
\* index: the call has ended in UnmatchedCurlyBracket.
C8_Witness ==
    /\ pc = "done"
    /\ \E k \in 0..(NumSegments(str_pattern) - 1) :
           EmptyAfterStrayClose(str_pattern, k) /\ k < Len(argv)
    /\ ret = "UnmatchedCurlyBracket"

\* Segment k holds more than one '{', or follows a segment that holds none.
BadSegment(s, k) ==
    \/ Cardinality(SegOpens(s, k)) > 1
    \/ k > 0 /\ SegOpens(s, k - 1) = {}

\* Segment k, with a single '{', fails with InvalidPositionalArgument.
SegInvalid(s, k, args) ==
    /\ Cardinality(SegOpens(s, k)) = 1
    /\ IF SegSpecifier(s, k) = << >> THEN k >= Len(args)
       ELSE IF ParseFails(SegSpecifier(s, k)) THEN TRUE
       ELSE ParseValue(SegSpecifier(s, k)) >= Len(args)

\* C9: a pattern with a segment of more than one '{', or with a '}' after a
\* segment without '{', makes try_format return UnmatchedCurlyBracket,
\* unless a segment before the first such place failed with
\* InvalidPositionalArgument (and then that error is returned).
C9_MalformedFails ==
    pc = "done" =>
        \A k \in 0..(NumSegments(str_pattern) - 1) :
            BadSegment(str_pattern, k)
                => /\ ret \in {"UnmatchedCurlyBracket", "InvalidPositionalArgument"}
                   /\ (\A j \in 0..(k - 1) : ~SegInvalid(str_pattern, j, argv))
                          => ret = "UnmatchedCurlyBracket"
                   /\ res = << >>

\* A placeholder that resolves, then a '}' after text without '{'.
C9_Witness ==
    /\ pc = "done"
    /\ Len(vars) = 1
    /\ finish_or_fail
    /\ ret = "UnmatchedCurlyBracket"

\* ------------------------------------------------------ request guards

\* The fallback locale, "en".
EN == << "e", "n" >>

\* A catalog is an opaque handle; the catalog of the k-th table entry.
CatalogAt(k) == k

\* Tags a table is drawn from: "en" and "e", a second locale whose tag is a
\* prefix of the first.
LangTags == {EN, << "e" >>}

\* Translations: Vec<(&'static str, Catalog)>; tags may repeat.
Tables ==
    {[k \in 1..Len(tags) |-> << tags[k], CatalogAt(k) >>] :
        tags \in UNION {[1..n -> LangTags] : n \in 0..MaxLangs}}

\* The Accept-Language header of a request: absent, a text value, or a value
\* that is not text (bytes outside visible ASCII), which HeaderValue::to_str
\* refuses.
Absent == [present |-> FALSE, text |-> FALSE, value |-> << >>]

Headers ==
    {Absent, [present |-> TRUE, text |-> FALSE, value |-> << >>]}
    \cup {[present |-> TRUE, text |-> TRUE, value |-> v] :
             v \in StringsUpTo(HeaderChars, MaxHeader)}

Pending == [status |-> "Pending", lang |-> << >>, catalog |-> 0]

\* langs.iter().any(|l| l.0 == lang)
Supports(table, lang) == \E k \in 1..Len(table) : table[k][1] = lang

\* Variant: no fallback to "en" when no candidate is supported.
FirstSupportedNoFallback(cands, table) ==
    IF \E k \in 1..Len(cands) : Supports(table, cands[k])
    THEN cands[CHOOSE k \in 1..Len(cands) :
                   /\ Supports(table, cands[k])
                   /\ \A j \in 1..(k - 1) : ~Supports(table, cands[j])]
    ELSE << >>

\* Iterator::find on the candidates, then unwrap_or("en").
FirstSupported(cands, table) ==
    IF \E k \in 1..Len(cands) : Supports(table, cands[k])
    THEN cands[CHOOSE k \in 1..Len(cands) :
                   /\ Supports(table, cands[k])
                   /\ \A j \in 1..(k - 1) : ~Supports(table, cands[j])]
    ELSE EN

\* Variant: the last entry with that tag is found.
FindLangLast(table, lang) ==
    IF Supports(table, lang)
    THEN CHOOSE k \in 1..Len(table) :
             /\ table[k][1] = lang
             /\ \A j \in (k + 1)..Len(table) : table[j][1] # lang
    ELSE 0

\* langs.iter().find(|l| l.0 == lang): the position of the first entry with
\* that tag, 0 for None.
FindLang(table, lang) ==
    IF Supports(table, lang)
    THEN CHOOSE k \in 1..Len(table) :
             /\ table[k][1] = lang
             /\ \A j \in 1..(k - 1) : table[j][1] # lang
    ELSE 0

\* Variant: the quality suffix is not cut off.
RocketLocaleDashOnly(lang) == Split(lang, {"-"})[1]

\* with_rocket.rs: lang.split(|c| c == '-' || c == ';').next()
RocketLocale(lang) == Split(lang, {"-", ";"})[1]

\* with_rocket.rs: the lang the guard looks up.
RocketLang(h, table) ==
    LET raw   == IF h.present THEN h.value ELSE EN
        toks  == Split(raw, {","})
        cands == [k \in 1..Len(toks) |-> RocketLocale(toks[k])]
    IN  FirstSupported(cands, table)

\* Variant: the country code is not cut off.
ActixLocaleSemicolonOnly(lang) == Split(lang, {";"})[1]

\* with_actix.rs: lang.split(|c| c == '-' || c == ';').nth(0)
ActixLocale(lang) == Split(lang, {"-", ";"})[1]

\* with_actix.rs: the lang the guard looks up; a header that is not text
\* counts as none.
ActixLang(h, table) ==
    LET raw   == IF h.present /\ h.text THEN h.value ELSE EN
        toks  == Split(raw, {","})
        cands == [k \in 1..Len(toks) |-> ActixLocale(toks[k])]
    IN  FirstSupported(cands, table)

\* No pattern is being formatted while a request is served.
NoFormat ==
    /\ str_pattern = << >>
    /\ argv = << >>
    /\ pc = "idle"
    /\ i = 0
    /\ pattern = << >>
    /\ vars = << >>
    /\ finish_or_fail = FALSE
    /\ res = << >>
    /\ ret = "None"

InitNegotiate ==
    /\ \/ managed = TRUE /\ langs \in Tables
       \/ managed = FALSE /\ langs = << >>
    /\ header \in Headers
    /\ rocket = Pending
    /\ actix = Pending
    /\ NoFormat

\* req.guard::<State<Translations>>().expect(..) on an unmanaged state.
RocketUnmanaged ==
    /\ rocket.status = "Pending"
    /\ header.present => header.text
    /\ ~managed
    /\ rocket' = [status |-> "Panic", lang |-> << >>, catalog |-> 0]
    /\ UNCHANGED << managed, langs, header, actix >>
    /\ UNCHANGED fvars

\* The Rocket guard.  get_one returns a &str: a Rocket request holds no
\* header value that is not text.
RocketFromRequest ==
    /\ rocket.status = "Pending"
    /\ header.present => header.text
    /\ managed
    /\ LET lang == RocketLang(header, langs)
           k    == FindLang(langs, lang)
       IN  rocket' =
               IF k # 0
               THEN [status |-> "Success", lang |-> langs[k][1], catalog |-> langs[k][2]]
               ELSE [status |-> "InternalServerError", lang |-> << >>, catalog |-> 0]
    /\ UNCHANGED << managed, langs, header, actix >>
    /\ UNCHANGED fvars

\* req.app_data::<Translations>().ok_or(MissingStateError)?
ActixMissingState ==
    /\ actix.status = "Pending"
    /\ ~managed
    /\ actix' = [status |-> "MissingStateError", lang |-> << >>, catalog |-> 0]
    /\ UNCHANGED << managed, langs, header, rocket >>
    /\ UNCHANGED fvars

\* The Actix guard; MissingTranslationsError carries the lang looked up.
ActixFromRequest ==
    /\ actix.status = "Pending"
    /\ managed
    /\ LET lang == ActixLang(header, langs)
           k    == FindLang(langs, lang)
       IN  actix' =
               IF k # 0
               THEN [status |-> "Success", lang |-> langs[k][1], catalog |-> langs[k][2]]
               ELSE [status |-> "MissingTranslationsError", lang |-> lang, catalog |-> 0]
    /\ UNCHANGED << managed, langs, header, rocket >>
    /\ UNCHANGED fvars

NextNegotiate ==
    \/ RocketUnmanaged
    \/ RocketFromRequest
    \/ ActixMissingState
    \/ ActixFromRequest

SpecNegotiate == InitNegotiate /\ [][NextNegotiate]_allvars

\* ------------------------------------------ properties of the guards

\* The preference read character by character, without splitting it.

CommasBefore(s, p) == Cardinality({q \in 1..(p - 1) : s[q] = ","})

\* Number of comma-separated tokens; tokens are numbered from 0.
NumTokens(s) == CommasBefore(s, Len(s) + 1) + 1

\* Positions of the characters of token k.
TokenAt(s, k) == {p \in 1..Len(s) : s[p] # "," /\ CommasBefore(s, p) = k}

\* The bare tag of token k: its characters before its first '-' or ';'.
BareTag(s, k) ==
    LET ps == {p \in TokenAt(s, k) :
                  \A q \in TokenAt(s, k) : q <= p => s[q] \notin {"-", ";"}}
    IN  IF ps = {} THEN << >>
        ELSE LET a == CHOOSE p \in ps : \A q \in ps : p <= q
             IN  SubSeq(s, a, a + Cardinality(ps) - 1)

HasTag(table, tag) == \E k \in 1..Len(table) : table[k][1] = tag

\* Some bare tag of the preference is a tag of the table.
SomeTagMatches(s, table) ==
    \E k \in 0..(NumTokens(s) - 1) : HasTag(table, BareTag(s, k))

\* The earliest bare tag of the preference that is a tag of the table.
EarliestMatch(s, table) ==
    BareTag(s, CHOOSE k \in 0..(NumTokens(s) - 1) :
                   /\ HasTag(table, BareTag(s, k))
                   /\ \A j \in 0..(k - 1) : ~HasTag(table, BareTag(s, j)))

\* The preference with every quality suffix removed: each token cut at its
\* first ';'.
RECURSIVE StripQuality(_, _)
StripQuality(s, skipping) ==
    IF s = << >> THEN << >>
    ELSE IF Head(s) = "," THEN << "," >> \o StripQuality(Tail(s), FALSE)
    ELSE IF skipping \/ Head(s) = ";" THEN StripQuality(Tail(s), TRUE)
    ELSE << Head(s) >> \o StripQuality(Tail(s), FALSE)

Stripped(h) == [h EXCEPT !.value = StripQuality(h.value, FALSE)]

\* The guard has looked the request up in a managed table.
Served(g) == g.status \notin {"Pending", "Idle", "Panic", "MissingStateError"}

Failed(g) == g.status \in {"InternalServerError", "MissingTranslationsError"}

\* C5: when some bare tag of the preference is a tag of the table, each
\* guard selects the earliest such bare tag, and selects the same tag for the
\* preference without its quality suffixes.
C5_EarliestMatchSelected ==
    (header.present /\ header.text /\ SomeTagMatches(header.value, langs))
        => /\ Served(rocket) =>
                 /\ rocket.status = "Success"
                 /\ rocket.lang = EarliestMatch(header.value, langs)
                 /\ rocket.lang = RocketLang(Stripped(header), langs)
           /\ Served(actix) =>
                 /\ actix.status = "Success"
                 /\ actix.lang = EarliestMatch(header.value, langs)
                 /\ actix.lang = ActixLang(Stripped(header), langs)

\* Both guards have passed over an unsupported first token and chosen a later
\* one that carries a quality suffix.
C5_Witness ==
    /\ header.present /\ header.text
    /\ Contains(header.value, ";")
    /\ NumTokens(header.value) >= 2
    /\ ~HasTag(langs, BareTag(header.value, 0))
    /\ rocket.status = "Success"
    /\ actix.status = "Success"
    /\ rocket.lang # EN

\* The preference is absent (for Actix also: not text), or none of its bare
\* tags is a tag of the table.
NoTagMatches ==
    \/ ~header.present
    \/ ~header.text
    \/ ~SomeTagMatches(header.value, langs)

\* The guard's outcome when "en" is the chosen tag.
FallsBackToEn(g) ==
    IF HasTag(langs, EN)
    THEN /\ g.status = "Success"
         /\ g.lang = EN
         /\ \E k \in 1..Len(langs) : langs[k] = << EN, g.catalog >>
    ELSE Failed(g)

\* C6: with the preference absent or without a matching bare tag, each guard
\* chooses "en": it returns ("en", the catalog of "en") if the table has
\* "en" and fails otherwise; and it fails in no other case.
C6_FallbackToEn ==
    /\ (Served(rocket) /\ NoTagMatches) => FallsBackToEn(rocket)
    /\ (Served(actix) /\ NoTagMatches) =>
           /\ FallsBackToEn(actix)
           /\ Failed(actix) => actix.lang = EN
    /\ Failed(rocket) => (NoTagMatches /\ ~HasTag(langs, EN))
    /\ Failed(actix) => (NoTagMatches /\ ~HasTag(langs, EN))

\* Both guards have failed on a text preference against a table without
\* "en".
C6_Witness ==
    /\ header.present /\ header.text
    /\ header.value # << >>
    /\ Len(langs) >= 1
    /\ rocket.status = "InternalServerError"
    /\ actix.status = "MissingTranslationsError"

\* The guard returned the first entry of the table with the returned tag.
FirstEntryReturned(g) ==
    g.status = "Success" =>
        \E k \in 1..Len(langs) :
            /\ langs[k] = << g.lang, g.catalog >>
            /\ \A j \in 1..(k - 1) : langs[j][1] # g.lang

\* C7: a successful guard returns the first entry of the table, in table
\* order, that carries the chosen tag, never a later one, and no guard
\* changes the table.
C7_FirstEntryWins ==
    /\ [](FirstEntryReturned(rocket) /\ FirstEntryReturned(actix))
    /\ [][langs' = langs]_allvars

\* Both guards have succeeded on a table that holds the returned tag twice.
C7_Witness ==
    /\ rocket.status = "Success"
    /\ actix.status = "Success"
    /\ Cardinality({k \in 1..Len(langs) : langs[k][1] = rocket.lang}) >= 2

\* C10: on a table and an Accept-Language value that is text or absent, the
\* two guards choose the same tag and the same entry, and the one fails
\* exactly when the other does.
C10_GuardsAgree ==
    (Served(rocket) /\ Served(actix) /\ (header.present => header.text))
        => /\ (rocket.status = "Success") <=> (actix.status = "Success")
           /\ (rocket.status = "InternalServerError")
                  <=> (actix.status = "MissingTranslationsError")
           /\ rocket.status = "Success" =>
                  /\ rocket.lang = actix.lang
                  /\ rocket.catalog = actix.catalog

\* Both guards have served a preference with a country code and chosen a
\* locale other than "en".
C10_Witness ==
    /\ header.present /\ header.text
    /\ Contains(header.value, "-")
    /\ rocket.status = "Success"
    /\ actix.status = "Success"
    /\ actix.lang # EN

====
